---- MODULE Spec2Model ----
(***************************************************************************)
(* A model of the numeric transforms of basic2.go: getCells, heatMap,      *)
(* cellMeans, standardizeCellMeans and getBrakeProb.                       *)
(*                                                                         *)
(* Go slices are functions on 0..len-1, so that indices are the source's.  *)
(* A float64 is an exact number (n/d)*sqrt(r) or one of NaN, +Inf, -Inf:   *)
(* rounding is not modelled, division by zero and 0*Inf are.               *)
(***************************************************************************)
EXTENDS Integers, Sequences, FiniteSets, TLC

\* ------------------------------------------------------------------ bounds

\* Longest score array handed to getBrakeProb with index-aligned arguments.
MaxN == 4
\* Longest score array handed to getBrakeProb with a br of another length.
MaxMis == 2
\* Longest score array in which scores may be equal.
MaxTied == 3
\* Largest half-window w handed to getBrakeProb.
MaxW == 2
\* Most observations handed to getCells, heatMap and cellMeans with
\* index-aligned arguments.
MaxObs == 3
\* Most observations handed to them with arguments of different lengths.
MaxMisObs == 1

\* The grid and its threshold, scaled down from the program's 100 x 100 cells
\* and minimum count of 100 (basic2.go, lines 22 to 24).
minCount == 1
nrow == 2
ncol == 2
\* The lags, scaled down from the program's 30 and 30 (lines 20 and 21).
maxSpeedLag == 0
maxRangeLag == 0
\* Most cells, and the largest count of a cell, handed to standardizeCellMeans.
MaxCells == 3
MaxCount == 2

\* ------------------------------------------------------------------ slices

len(a) == Cardinality(DOMAIN a)

Empty == [k \in {} |-> 0]

\* make([]T, n) with every element zero.
Make(n, zero) == [k \in 0 .. n - 1 |-> zero]

\* a[lo:hi], for 0 <= lo <= hi <= len(a).
Slice(a, lo, hi) == [k \in 0 .. hi - lo - 1 |-> a[lo + k]]

\* The Go slice expression a[lo:hi] panics unless 0 <= lo <= hi <= cap(a).
SliceOK(a, lo, hi) == 0 <= lo /\ lo <= hi /\ hi <= len(a)

\* ------------------------------------------------------------------ float64

Abs(x) == IF x < 0 THEN -x ELSE x

Sgn(x) == IF x < 0 THEN -1 ELSE IF x > 0 THEN 1 ELSE 0

RECURSIVE GCD(_, _)
GCD(a, b) == IF b = 0 THEN a ELSE GCD(b, a % b)

RECURSIVE RootBetween(_, _, _)
\* The largest k in lo .. hi with k*k <= m, for lo*lo <= m.
RootBetween(m, lo, hi) ==
    IF lo = hi THEN lo
    ELSE LET mid == (lo + hi + 1) \div 2
         IN  IF mid <= m \div mid
             THEN RootBetween(m, mid, hi)
             ELSE RootBetween(m, lo, mid - 1)

\* The largest k with k*k dividing m, for m >= 1.
SquarePart(m) ==
    LET ks == {k \in 1 .. RootBetween(m, 1, m) : m % (k * k) = 0}
    IN  CHOOSE k \in ks : \A l \in ks : l <= k

NaN == [n |-> 0, d |-> 0, r |-> 1]
PosInf == [n |-> 1, d |-> 0, r |-> 1]
NegInf == [n |-> -1, d |-> 0, r |-> 1]
\* A real number that is not of the form (n/d)*sqrt(r): no operation of the
\* program produces one.
Unrep == [n |-> 0, d |-> 0, r |-> 0]

Inf(s) == IF s < 0 THEN NegInf ELSE PosInf

\* (n/d)*sqrt(r) in lowest terms, for d # 0 and r >= 1 without a square
\* factor.
Reduce(n, d, r) ==
    IF n = 0 THEN [n |-> 0, d |-> 1, r |-> 1]
    ELSE LET nn == n * Sgn(d)
             dd == Abs(d)
             g == GCD(Abs(nn), dd)
         IN  [n |-> nn \div g, d |-> dd \div g, r |-> r]

\* (n/d)*sqrt(r) in lowest terms, for d # 0 and r >= 1.
Norm(n, d, r) ==
    LET k == SquarePart(r) IN Reduce(n * k, d, r \div (k * k))

\* float64(k) of an int k.
Float(k) == [n |-> k, d |-> 1, r |-> 1]

Zero == Float(0)
One == Float(1)

\* The literal n/d.
Rat(n, d) == Reduce(n, d, 1)

IsNaN(x) == x.d = 0 /\ x.n = 0
IsInf(x) == x.d = 0 /\ x.n # 0
IsFinite(x) == x.d # 0
IsZero(x) == x.d # 0 /\ x.n = 0
IsUnrep(x) == x.r = 0

FNeg(x) == [x EXCEPT !.n = -x.n]

FAdd(x, y) ==
    IF IsUnrep(x) \/ IsUnrep(y) THEN Unrep
    ELSE IF IsNaN(x) \/ IsNaN(y) THEN NaN
    ELSE IF IsInf(x) THEN (IF IsInf(y) /\ y.n # x.n THEN NaN ELSE x)
    ELSE IF IsInf(y) THEN y
    ELSE IF IsZero(x) THEN y
    ELSE IF IsZero(y) THEN x
    ELSE IF x.r = y.r THEN Reduce(x.n * y.d + y.n * x.d, x.d * y.d, x.r)
    ELSE Unrep

FSub(x, y) == FAdd(x, FNeg(y))

FMul(x, y) ==
    IF IsUnrep(x) \/ IsUnrep(y) THEN Unrep
    ELSE IF IsNaN(x) \/ IsNaN(y) THEN NaN
    ELSE IF IsInf(x) \/ IsInf(y)
         THEN (IF IsZero(x) \/ IsZero(y) THEN NaN ELSE Inf(Sgn(x.n) * Sgn(y.n)))
    ELSE IF x.r = 1 \/ y.r = 1 THEN Reduce(x.n * y.n, x.d * y.d, x.r * y.r)
    ELSE IF x.r = y.r THEN Reduce(x.n * y.n * x.r, x.d * y.d, 1)
    ELSE Norm(x.n * y.n, x.d * y.d, x.r * y.r)

FDiv(x, y) ==
    IF IsUnrep(x) \/ IsUnrep(y) THEN Unrep
    ELSE IF IsNaN(x) \/ IsNaN(y) THEN NaN
    ELSE IF IsInf(y) THEN (IF IsInf(x) THEN NaN ELSE Zero)
    ELSE IF IsZero(y) THEN (IF IsZero(x) THEN NaN ELSE Inf(Sgn(x.n)))
    ELSE IF IsInf(x) THEN Inf(Sgn(x.n) * Sgn(y.n))
    \* 1/((a/b)*sqrt(r)) = (b/(a*r))*sqrt(r)
    ELSE FMul(x, Reduce(y.d, y.n * y.r, y.r))

\* math.Sqrt.
FSqrt(x) ==
    IF IsUnrep(x) THEN Unrep
    ELSE IF IsNaN(x) \/ x.n < 0 THEN NaN
    ELSE IF IsInf(x) THEN PosInf
    ELSE IF IsZero(x) THEN Zero
    ELSE IF x.r # 1 THEN Unrep
    \* sqrt(p/q) for p = kp*kp*rp and q = kq*kq*rq is (kp/(kq*rq))*sqrt(rp*rq)
    ELSE LET kp == SquarePart(x.n)
             kq == SquarePart(x.d)
             rq == x.d \div (kq * kq)
         IN  Reduce(kp, kq * rq, (x.n \div (kp * kp)) * rq)

\* x <= y for finite rationals.
FLeq(x, y) == x.n * y.d <= y.n * x.d

\* math.Floor of a finite rational, as an int.
Floor(x) == x.n \div x.d

\* ------------------------------------------------------------------ state

VARIABLES
    pc,         \* the statement the running function is at, "done" or "panic"
    \* getBrakeProb
    sc, br, w,  \* the arguments; sc and br are the caller's backing arrays
    scIn, brIn, \* the caller's arrays as they were when the call was made
    ii, b, z,   \* the locals ii, b and z
    i, j,       \* the counters of the accumulation loops
    retSc, retZ, \* the two slices returned
    \* getCells, heatMap, cellMeans
    x0, x1, y,  \* the coordinates and the outcomes, one per observation
    nData,      \* the number of rows the stream data holds
    row, col,   \* what getCells returned
    hi,         \* heatMap's loop counter i
    missed, hit, num, denom,
    rat,        \* heatMap's rat
    iiCell,     \* cellMeans' ii: the rows of data read so far
    cmn, cmc,   \* cellMeans' sums (then means) and counts; the arguments
                \* of standardizeCellMeans
    \* standardizeCellMeans
    cmnIn,      \* cmn as it was when the call was made
    v, wSum     \* the locals v and w

brakeVars == <<sc, br, w, scIn, brIn, ii, b, z, i, j, retSc, retZ>>

gridVars == <<x0, x1, y, nData, row, col, hi, missed, hit, num, denom, rat,
              iiCell, cmn, cmc>>

stdVars == <<cmnIn, v, wSum>>

vars == <<pc, brakeVars, gridVars, stdVars>>

\* The state of the functions that are not running.
IdleBrake ==
    /\ sc = Empty /\ br = Empty /\ w = 0 /\ scIn = Empty /\ brIn = Empty
    /\ ii = Empty /\ b = Empty /\ z = Empty /\ i = 0 /\ j = 0
    /\ retSc = Empty /\ retZ = Empty

IdleGrid ==
    /\ x0 = Empty /\ x1 = Empty /\ y = Empty /\ nData = 0
    /\ row = Empty /\ col = Empty /\ hi = 0 /\ missed = 0 /\ hit = 0
    /\ num = Empty /\ denom = Empty /\ rat = Empty
    /\ iiCell = 0 /\ cmn = Empty /\ cmc = Empty

IdleStd == cmnIn = Empty /\ v = Empty /\ wSum = 0

\* ------------------------------------------------------------------ getBrakeProb

Range(f) == {f[x] : x \in DOMAIN f}

\* The score arrays of length n up to order isomorphism: every order of the
\* scores 1..k and, up to length MaxTied, every pattern of ties (k < n).
ScoreArrays(n) ==
    {[x \in 0 .. n - 1 |-> Float(f[x])] :
        f \in {g \in [0 .. n - 1 -> 1 .. n] :
                  \E k \in (IF n <= MaxTied THEN 0 ELSE n) .. n : Range(g) = 1 .. k}}

Outcomes(n) == [0 .. n - 1 -> {Zero, One}]

\* The example of the specification: sc = [1,5,2,4,3], br = [0,1,0,1,0], w = 1.
ExampleSc == [x \in 0 .. 4 |-> Float(<<1, 5, 2, 4, 3>>[x + 1])]
ExampleBr == [x \in 0 .. 4 |-> Float(<<0, 1, 0, 1, 0>>[x + 1])]

\* The lengths of br for an sc of length n: n, or, for a short sc, n-1 or n+1.
BrLengths(n) ==
    {n} \cup (IF n <= MaxMis THEN {m \in {n - 1, n + 1} : m >= 0} ELSE {})

\* Index-aligned arguments up to MaxN, arguments of different lengths up to
\* MaxMis, and the specification's example.
InitBrake ==
    /\ pc = "argsort"
    /\ \/ \E n \in 0 .. MaxN : \E m \in BrLengths(n) :
            /\ sc \in ScoreArrays(n)
            /\ br \in Outcomes(m)
            /\ w \in 0 .. MaxW
       \/ sc = ExampleSc /\ br = ExampleBr /\ w = 1
    /\ scIn = sc /\ brIn = br
    /\ ii = Empty /\ b = Empty /\ z = Empty
    /\ i = 0 /\ j = 0
    /\ retSc = Empty /\ retZ = Empty
    /\ IdleGrid /\ IdleStd

\* Every order of the indices in S that sorts a ascending: sort.Sort leaves
\* the order of equal elements unspecified.
RECURSIVE SortPerms(_, _)
SortPerms(a, S) ==
    IF S = {} THEN {<<>>}
    ELSE LET least == {e \in S : \A f \in S : FLeq(a[e], a[f])}
         IN  UNION {{<<e>> \o t : t \in SortPerms(a, S \ {e})} : e \in least}

\* ii := make([]int, len(sc)); floats.Argsort(sc, ii): sc is sorted in place
\* and ii[k] is the position sc[k] had.
Argsort ==
    /\ pc = "argsort"
    /\ \E p \in SortPerms(sc, DOMAIN sc) :
        /\ ii' = [k \in DOMAIN sc |-> p[k + 1]]
        /\ sc' = [k \in DOMAIN sc |-> sc[p[k + 1]]]
    /\ pc' = "reorder"
    /\ UNCHANGED <<br, w, scIn, brIn, b, z, i, j, retSc, retZ>>
    /\ UNCHANGED <<gridVars, stdVars>>

\* for _, i := range ii { b = append(b, br[i]) }; z := make(...); i := w
Reorder ==
    /\ pc = "reorder"
    /\ IF \A k \in DOMAIN ii : ii[k] \in DOMAIN br
       THEN /\ b' = [k \in DOMAIN ii |-> br[ii[k]]]
            /\ z' = Make(len(sc), Zero)
            /\ i' = w
            /\ pc' = "outer"
       ELSE \* br[i]: index out of range
            /\ pc' = "panic"
            /\ UNCHANGED <<b, z, i>>
    /\ UNCHANGED <<sc, br, w, scIn, brIn, ii, j, retSc, retZ>>
    /\ UNCHANGED <<gridVars, stdVars>>

\* A loop that runs over every position, not only the trimmed ones.
OuterCondUntrimmed == i < len(b)

\* i < len(b)-w
OuterCond == i < len(b) - w

\* A window closed at its right end.
InnerCondClosed == j <= i + w

\* j < i+w
InnerCond == j < i + w

\* One test of the outer loop: for i := w; i < len(b)-w; i++ { if b[i] == 1 {
Outer ==
    /\ pc = "outer"
    /\ IF OuterCond
       THEN IF b[i] = One
            THEN j' = i - w /\ pc' = "inner" /\ UNCHANGED i
            ELSE i' = i + 1 /\ UNCHANGED <<pc, j>>
       ELSE pc' = "normalize" /\ UNCHANGED <<i, j>>
    /\ UNCHANGED <<sc, br, w, scIn, brIn, ii, b, z, retSc, retZ>>
    /\ UNCHANGED <<gridVars, stdVars>>

\* One test of the inner loop: for j := i - w; j < i+w; j++ { z[j]++ }
Inner ==
    /\ pc = "inner"
    /\ IF InnerCond
       THEN IF j \in DOMAIN z
            THEN /\ z' = [z EXCEPT ![j] = FAdd(@, One)]
                 /\ j' = j + 1
                 /\ UNCHANGED <<pc, i>>
            ELSE \* z[j]: index out of range
                 pc' = "panic" /\ UNCHANGED <<z, i, j>>
       ELSE i' = i + 1 /\ pc' = "outer" /\ UNCHANGED <<z, j>>
    /\ UNCHANGED <<sc, br, w, scIn, brIn, ii, b, retSc, retZ>>
    /\ UNCHANGED <<gridVars, stdVars>>

\* for i, _ := range z { z[i] /= float64(2 * w) }
Normalize ==
    /\ pc = "normalize"
    /\ z' = [k \in DOMAIN z |-> FDiv(z[k], Float(2 * w))]
    /\ pc' = "return"
    /\ UNCHANGED <<sc, br, w, scIn, brIn, ii, b, i, j, retSc, retZ>>
    /\ UNCHANGED <<gridVars, stdVars>>

\* return sc[w : len(sc)-w], z[w : len(z)-w]
Return ==
    /\ pc = "return"
    /\ IF SliceOK(sc, w, len(sc) - w) /\ SliceOK(z, w, len(z) - w)
       THEN /\ retSc' = Slice(sc, w, len(sc) - w)
            /\ retZ' = Slice(z, w, len(z) - w)
            /\ pc' = "done"
       ELSE \* slice bounds out of range
            pc' = "panic" /\ UNCHANGED <<retSc, retZ>>
    /\ UNCHANGED <<sc, br, w, scIn, brIn, ii, b, z, i, j>>
    /\ UNCHANGED <<gridVars, stdVars>>

NextBrake == Argsort \/ Reorder \/ Outer \/ Inner \/ Normalize \/ Return

SpecBrake == InitBrake /\ [][NextBrake]_vars

\* ------------------------------------------------------------------ getCells

\* Coordinates whose images 70*x0+50 and 15*x1+50 fall on the edges of the
\* grid: -1/2, 1/2, nrow-1/2 and nrow (ncol-1/2 and ncol).
RowCoord == [below |-> Rat(-101, 140), first |-> Rat(-99, 140),
             last |-> Rat(2 * nrow - 101, 140), above |-> Rat(nrow - 50, 70)]
ColCoord == [below |-> Rat(-101, 30), first |-> Rat(-99, 30),
             last |-> Rat(2 * ncol - 101, 30), above |-> Rat(ncol - 50, 15)]

\* An observation: its two coordinates and its outcome. Two points are in the
\* grid, and each of the other four breaks one of the four bounds.
Points ==
    {<<RowCoord.first, ColCoord.first>>, <<RowCoord.last, ColCoord.last>>,
     <<RowCoord.below, ColCoord.first>>, <<RowCoord.first, ColCoord.below>>,
     <<RowCoord.above, ColCoord.first>>, <<RowCoord.first, ColCoord.above>>}

Observations(n) == [0 .. n - 1 -> Points \X {Zero, One}]

\* The lengths of x1, y and data for an x0 of length n: all n, or, for a
\* short x0, each within one of n.
Lengths(n) ==
    {<<n, n, n>>} \cup
    (IF n <= MaxMisObs
     THEN {m \in (0 .. n + 1) \X (0 .. n + 1) \X (0 .. n + 1) :
              \A k \in 1 .. 3 : m[k] >= n - 1}
     ELSE {})

InitGrid ==
    /\ pc = "getCells"
    /\ \E n \in 0 .. MaxObs : \E m \in Lengths(n) :
        \E o \in Observations(IF n <= MaxMisObs THEN n + 1 ELSE n) :
            /\ x0 = [k \in 0 .. n - 1 |-> o[k][1][1]]
            /\ x1 = [k \in 0 .. m[1] - 1 |-> o[k][1][2]]
            /\ y = [k \in 0 .. m[2] - 1 |-> o[k][2]]
            /\ nData = m[3]
    /\ row = Empty /\ col = Empty /\ hi = 0 /\ missed = 0 /\ hit = 0
    /\ num = Empty /\ denom = Empty /\ rat = Empty
    /\ iiCell = 0 /\ cmn = Empty /\ cmc = Empty
    /\ IdleBrake /\ IdleStd

\* int(math.Floor(70*x0[i] + 50))
RowOf(x) == Floor(FAdd(FMul(Float(70), x), Float(50)))

\* int(math.Floor(15*x1[i] + 50))
ColOf(x) == Floor(FAdd(FMul(Float(15), x), Float(50)))

\* row := make([]int, len(x0)); col := make([]int, len(x1)); the loop ranges
\* over x0 and reads x1[i].
GetCells ==
    /\ pc = "getCells"
    /\ IF \A k \in DOMAIN x0 : k \in DOMAIN x1
       THEN /\ row' = [k \in DOMAIN x0 |-> RowOf(x0[k])]
            /\ col' = [k \in DOMAIN x1 |->
                          IF k \in DOMAIN x0 THEN ColOf(x1[k]) ELSE 0]
            /\ num' = Make(nrow * ncol, Zero)
            /\ denom' = Make(nrow * ncol, 0)
            /\ pc' = "heatLoop"
       ELSE \* x1[i]: index out of range
            pc' = "panic" /\ UNCHANGED <<row, col, num, denom>>
    /\ UNCHANGED <<x0, x1, y, nData, hi, missed, hit, rat, iiCell, cmn, cmc>>
    /\ UNCHANGED <<brakeVars, stdVars>>

\* ------------------------------------------------------------------ heatMap

\* row[i] >= 0 && col[i] >= 0 && row[i] < nrow && col[i] < ncol
HeatInGrid(r, c) == r >= 0 /\ c >= 0 /\ r < nrow /\ c < ncol

\* One pass of: for i, _ := range x0 { ... }. The condition reads row[i], then
\* col[i] unless row[i] < 0, and the body reads y[i].
HeatLoop ==
    /\ pc = "heatLoop"
    /\ hi < len(x0)
    /\ IF hi \notin DOMAIN row
       THEN pc' = "panic" /\ UNCHANGED <<hi, missed, hit, num, denom>>
       ELSE IF row[hi] < 0
       THEN missed' = missed + 1 /\ hi' = hi + 1 /\ UNCHANGED <<pc, hit, num, denom>>
       ELSE IF hi \notin DOMAIN col
       THEN pc' = "panic" /\ UNCHANGED <<hi, missed, hit, num, denom>>
       ELSE IF ~HeatInGrid(row[hi], col[hi])
       THEN missed' = missed + 1 /\ hi' = hi + 1 /\ UNCHANGED <<pc, hit, num, denom>>
       ELSE IF hi \notin DOMAIN y
       THEN /\ denom' = [denom EXCEPT ![ncol * row[hi] + col[hi]] = @ + 1]
            /\ pc' = "panic"
            /\ UNCHANGED <<hi, missed, hit, num>>
       ELSE /\ denom' = [denom EXCEPT ![ncol * row[hi] + col[hi]] = @ + 1]
            /\ num' = IF y[hi] = One
                      THEN [num EXCEPT ![ncol * row[hi] + col[hi]] = FAdd(@, One)]
                      ELSE num
            /\ hit' = hit + 1
            /\ hi' = hi + 1
            /\ UNCHANGED <<pc, missed>>
    /\ UNCHANGED <<x0, x1, y, nData, row, col, rat, iiCell, cmn, cmc>>
    /\ UNCHANGED <<brakeVars, stdVars>>

\* math.Pow(x, 0.1), kept as the term x^(1/10); a float64 v is the term v^(1/1).
Pow10th(x) == [root |-> 10, x |-> x]
Plain(x) == [root |-> 1, x |-> x]

\* A threshold that lets a cell with exactly minCount observations through.
EnoughDataInclusive(q) == denom[q] >= minCount

\* denom[i] > minCount
EnoughData(q) == denom[q] > minCount

\* The number of columns cellMeans reads: Speed[0..-maxSpeedLag] and
\* FcwRange[0..-maxRangeLag].
NumCols == (maxSpeedLag + 1) + (maxRangeLag + 1)

\* The loop is over: rat is filled and heatMap returns rat, denom. cellMeans
\* starts: cmn, cmc are made and data is reset.
HeatRat ==
    /\ pc = "heatLoop"
    /\ hi = len(x0)
    /\ rat' = [q \in DOMAIN num |->
                  IF EnoughData(q)
                  THEN Pow10th(FDiv(num[q], Float(denom[q])))
                  ELSE Plain(Float(-1))]
    /\ cmn' = Make(nrow * ncol, Make(NumCols, Zero))
    /\ cmc' = Make(nrow * ncol, 0)
    /\ iiCell' = 0
    /\ pc' = "cellNext"
    /\ UNCHANGED <<x0, x1, y, nData, row, col, hi, missed, hit, num, denom>>
    /\ UNCHANGED <<brakeVars, stdVars>>

\* ------------------------------------------------------------------ cellMeans

RECURSIVE FSum(_, _)
\* The sum of f[e] over e in S.
FSum(f, S) ==
    IF S = {} THEN Zero
    ELSE LET e == CHOOSE e \in S : TRUE IN FAdd(f[e], FSum(f, S \ {e}))

\* row[jj] >= 0 && row[jj] < nrow && col[jj] >= 0 && col[jj] < ncol
CellInGrid(r, c) == r >= 0 /\ r < nrow /\ c >= 0 /\ c < ncol

\* A count that every column increments.
CountsEveryColumn(jc) == TRUE

\* if j == 0 { cmc[q]++ }
CountsObservation(jc) == jc = 0

\* The stream: row t of column jc holds t + jc + 1, so that a sum tells which
\* rows went into it.
Data(jc, t) == Float(t + jc + 1)

\* data.GetPos(k) after a data.Next() that gave the n rows from row first on.
Chunk(first, n) == [jc \in 0 .. NumCols - 1 |-> [k \in 0 .. n - 1 |-> Data(jc, first + k)]]

\* One pass of: for data.Next() { ... ii += n }, on a chunk of n rows.
CellNext ==
    /\ pc = "cellNext"
    /\ \E n \in 1 .. nData - iiCell :
        LET chunk == Chunk(iiCell, n)
            rows == 0 .. n - 1
            \* the rows the condition of line 209 reads without a panic
            readable(k) ==
                /\ iiCell + k \in DOMAIN row
                /\ (row[iiCell + k] >= 0 /\ row[iiCell + k] < nrow)
                       => iiCell + k \in DOMAIN col
            inCell(q) == {k \in rows : /\ CellInGrid(row[iiCell + k], col[iiCell + k])
                                       /\ row[iiCell + k] * ncol + col[iiCell + k] = q}
        IN  IF \A k \in rows : readable(k)
            THEN /\ cmn' = [q \in DOMAIN cmn |-> [jc \in DOMAIN cmn[q] |->
                               FAdd(cmn[q][jc], FSum(chunk[jc], inCell(q)))]]
                 /\ cmc' = [q \in DOMAIN cmc |->
                               cmc[q] + Cardinality(inCell(q)) *
                                   Cardinality({jc \in 0 .. NumCols - 1 :
                                                   CountsObservation(jc)})]
                 /\ iiCell' = iiCell + n
                 /\ UNCHANGED pc
            ELSE \* row[jj] or col[jj]: index out of range
                 pc' = "panic" /\ UNCHANGED <<cmn, cmc, iiCell>>
    /\ UNCHANGED <<x0, x1, y, nData, row, col, hi, missed, hit, num, denom, rat>>
    /\ UNCHANGED <<brakeVars, stdVars>>

\* data.Next() is false: for q, v := range cmn { floats.Scale(1/float64(cmc[q]), v) }
CellScale ==
    /\ pc = "cellNext"
    /\ iiCell = nData
    /\ cmn' = [q \in DOMAIN cmn |-> [jc \in DOMAIN cmn[q] |->
                  FMul(FDiv(One, Float(cmc[q])), cmn[q][jc])]]
    /\ pc' = "done"
    /\ UNCHANGED <<x0, x1, y, nData, row, col, hi, missed, hit, num, denom, rat,
                   iiCell, cmc>>
    /\ UNCHANGED <<brakeVars, stdVars>>

NextGrid == GetCells \/ HeatLoop \/ HeatRat \/ CellNext \/ CellScale

SpecGrid == InitGrid /\ [][NextGrid]_vars

\* ------------------------------------------------------------------ standardizeCellMeans

\* The vectors a cell may hold: NaN throughout (what cellMeans leaves in a
\* cell without observations), or a, 2a, 3a, ...
CellVectors ==
    {[jc \in 0 .. NumCols - 1 |-> NaN]} \cup
    {[jc \in 0 .. NumCols - 1 |-> Float(a * (jc + 1))] : a \in {0, 1, 3}}

InitStd ==
    /\ pc = "center"
    /\ \E n \in 1 .. MaxCells :
        /\ cmn \in [0 .. n - 1 -> CellVectors]
        /\ cmc \in [0 .. n - 1 -> 0 .. MaxCount]
    /\ cmnIn = cmn
    /\ v = Empty /\ wSum = 0
    /\ x0 = Empty /\ x1 = Empty /\ y = Empty /\ nData = 0
    /\ row = Empty /\ col = Empty /\ hi = 0 /\ missed = 0 /\ hit = 0
    /\ num = Empty /\ denom = Empty /\ rat = Empty /\ iiCell = 0
    /\ IdleBrake

RECURSIVE Sum(_, _)
\* The sum of the ints f[e] over e in S.
Sum(f, S) ==
    IF S = {} THEN 0
    ELSE LET e == CHOOSE e \in S : TRUE IN f[e] + Sum(f, S \ {e})

\* if cmc[i] > 0
Populated(q) == cmc[q] > 0

\* A mean in which every populated cell weighs the same.
UnitWeight(q) == One

\* float64(cmc[i]), the weight of cell i in the mean
CenterWeight(q) == Float(cmc[q])

\* The part under "// Center": v is the mean of the populated cells weighted
\* by their counts, and floats.Sub(u, v) runs for every u of cmn.
Center ==
    /\ pc = "center"
    /\ LET pop == {q \in DOMAIN cmn : Populated(q)}
           tot == [k \in DOMAIN cmn[0] |->
                      FSum([q \in pop |-> FMul(CenterWeight(q), cmn[q][k])], pop)]
           ww == Sum(cmc, pop)
           mean == [k \in DOMAIN tot |-> FMul(FDiv(One, Float(ww)), tot[k])]
       IN  /\ v' = mean
           /\ wSum' = ww
           /\ cmn' = [q \in DOMAIN cmn |-> [k \in DOMAIN cmn[q] |->
                         FSub(cmn[q][k], v'[k])]]
    /\ pc' = "scale"
    /\ UNCHANGED <<x0, x1, y, nData, row, col, hi, missed, hit, num, denom, rat,
                   iiCell, cmc, cmnIn>>
    /\ UNCHANGED brakeVars

\* The part under "// Scale": v[j] is the root of the weighted mean square of
\* the populated cells, and every cell is divided by it.
Scale ==
    /\ pc = "scale"
    /\ LET pop == {q \in DOMAIN cmn : Populated(q)}
           tot == [k \in DOMAIN v |->
                      FSum([q \in pop |->
                               FMul(FMul(Float(cmc[q]), cmn[q][k]), cmn[q][k])], pop)]
           ww == Sum(cmc, pop)
           sd == [k \in DOMAIN v |-> FSqrt(FMul(FDiv(One, Float(ww)), tot[k]))]
       IN  /\ v' = sd
           /\ wSum' = ww
           /\ cmn' = [q \in DOMAIN cmn |-> [k \in DOMAIN cmn[q] |->
                         FDiv(cmn[q][k], v'[k])]]
    /\ pc' = "done"
    /\ UNCHANGED <<x0, x1, y, nData, row, col, hi, missed, hit, num, denom, rat,
                   iiCell, cmc, cmnIn>>
    /\ UNCHANGED brakeVars

NextStd == Center \/ Scale

SpecStd == InitStd /\ [][NextStd]_vars

\* ------------------------------------------------------------------ the program

Init == InitBrake \/ InitGrid \/ InitStd

Next == NextBrake \/ NextGrid \/ NextStd

Spec == Init /\ [][Next]_vars

\* ------------------------------------------------------------------ claims

\* 0-based array of a sequence.
Arr(seq) == [k \in 0 .. Len(seq) - 1 |-> seq[k + 1]]

N == len(scIn)

BrakeAligned == len(scIn) = len(brIn)

\* The number of scores below a[e]: the sorted position of a[e] when the
\* scores are pairwise distinct.
Rank(a, e) == Cardinality({f \in DOMAIN a : ~FLeq(a[e], a[f])})

Distinct(a) == \A e, f \in DOMAIN a : e # f => a[e] # a[f]

AtRank(a, k) == CHOOSE e \in DOMAIN a : Rank(a, e) = k

SortedScores == [k \in DOMAIN scIn |-> scIn[AtRank(scIn, k)]]

SortedOutcomes == [k \in DOMAIN scIn |-> brIn[AtRank(scIn, k)]]

\* The sorted positions i of the trimmed range with outcome 1 whose window
\* [i-w, i+w) holds position p.
WindowCount(p) ==
    Cardinality({q \in w .. N - w - 1 :
                    SortedOutcomes[q] = One /\ q - w <= p /\ p < q + w})

\* C1: with w >= 1, 2w < N and br[i] = 1 for all i, every element of the
\* accumulator slice getBrakeProb returns is exactly 1.0.
C1_ConstantOutcomeGivesOne ==
    (pc = "done" /\ BrakeAligned /\ w >= 1 /\ 2 * w < N
        /\ \A k \in DOMAIN brIn : brIn[k] = One)
    => \A k \in DOMAIN retZ : retZ[k] = One

\* C2: a call of getBrakeProb whose trimmed range [w, N-w) is empty or of
\* negative length (2w >= N) ends in an error and never returns normally.
C2_EmptyRangeIsError ==
    (BrakeAligned /\ w >= 1 /\ 2 * w >= N) => pc # "done"

\* C5: after a call of getBrakeProb the caller's sc and br hold the same
\* elements in the same order as before the call.
C5_InputsNotMutated ==
    (pc = "done") => (sc = scIn /\ br = brIn)

C10_WritesInRange ==
    (w >= 1 /\ 2 * w <= N)
    => /\ (pc = "inner" /\ j < i + w) => (0 <= j /\ j < N)
       /\ pc \in {"outer", "inner", "normalize"}
            => \A k \in DOMAIN z : FLeq(Zero, z[k]) /\ FLeq(z[k], Float(2 * w))
       /\ pc \in {"return", "done"}
            => \A k \in DOMAIN z :
                  IsFinite(z[k]) /\ FLeq(Zero, z[k]) /\ FLeq(z[k], One)

\* A call has returned with an accumulator that reached 2w, and with a
\* position outside the trimmed range that was written.
C10_Witness ==
    /\ pc = "done" /\ w >= 1 /\ 2 * w <= N
    /\ \E k \in DOMAIN z : z[k] = One
    /\ z[0] # Zero

GridAligned == len(x1) = len(x0) /\ len(y) = len(x0) /\ nData = len(x0)

\* The observations getCells put in cell q.
ObsInCell(q) ==
    {k \in DOMAIN row : /\ 0 <= row[k] /\ row[k] < nrow
                        /\ 0 <= col[k] /\ col[k] < ncol
                        /\ row[k] * ncol + col[k] = q}

\* C3: every observation in the grid increments exactly the counter of cell
\* row[i]*ncol+col[i] and no other observation increments a counter; the sum
\* of cellMeans' counts equals the sum of heatMap's denom and heatMap's hit.
C3_CountsAgree ==
    (pc = "done" /\ GridAligned)
    => /\ \A q \in DOMAIN cmc : cmc[q] = Cardinality(ObsInCell(q))
       /\ \A q \in DOMAIN denom : denom[q] = Cardinality(ObsInCell(q))
       /\ Sum(cmc, DOMAIN cmc) = Sum(denom, DOMAIN denom)
       /\ Sum(denom, DOMAIN denom) = hit
       /\ hit + missed = len(x0)

\* Both functions are done on observations in two cells and one outside.
C3_Witness ==
    /\ pc = "done" /\ GridAligned
    /\ missed >= 1
    /\ Cardinality({q \in DOMAIN cmc : cmc[q] > 0}) >= 2

Sentinel == Plain(Float(-1))

\* C7: in heatMap's result rat[q] = -1 exactly when denom[q] <= minCount, and
\* a cell with denom[q] > minCount holds (num[q]/denom[q])^0.1, which is >= 0.
C7_SentinelThreshold ==
    (pc \in {"cellNext", "done"})
    => \A q \in DOMAIN rat :
          /\ rat[q] = Sentinel <=> denom[q] <= minCount
          /\ denom[q] > minCount
               => /\ rat[q] = Pow10th(FDiv(num[q], Float(denom[q])))
                  /\ IsFinite(rat[q].x) /\ rat[q].x.n >= 0

\* heatMap returned with a cell of exactly minCount observations and a cell
\* of more.
C7_Witness ==
    /\ pc = "cellNext"
    /\ \E q \in DOMAIN rat : denom[q] = minCount /\ rat[q] = Sentinel
    /\ \E q \in DOMAIN rat : denom[q] > minCount /\ rat[q] # Sentinel

\* C6: getCells, heatMap and getBrakeProb end in an error, and return no
\* result, whenever their arrays do not all have the same length.
C6_LengthMismatchIsError ==
    /\ len(scIn) # len(brIn) => pc # "done"
    /\ len(x0) # len(x1) => pc \notin {"heatLoop", "cellNext", "done"}
    /\ ~(len(row) = len(x0) /\ len(col) = len(x0) /\ len(y) = len(x0)
            /\ len(x1) = len(x0))
         => pc \notin {"cellNext", "done"}

PopulatedCells == {q \in DOMAIN cmc : cmc[q] > 0}

\* C4: on cells of which one is populated, with finite means in the populated
\* cells, the centering step leaves the vector of every cell with cmc[q] = 0
\* as it was before the call.
C4_EmptyCellsNotCentered ==
    (pc = "scale" /\ PopulatedCells # {}
        /\ \A q \in PopulatedCells : \A k \in DOMAIN cmnIn[q] : IsFinite(cmnIn[q][k]))
    => \A q \in DOMAIN cmn : cmc[q] = 0 => cmn[q] = cmnIn[q]

\* The mean over the populated cells of dimension k, weighted by the counts.
WeightedMean(k) ==
    FDiv(FSum([q \in PopulatedCells |-> FMul(Float(cmc[q]), cmn[q][k])],
              PopulatedCells),
         Float(Sum(cmc, PopulatedCells)))

\* The call is one C8 speaks of: a populated cell, finite means in the
\* populated cells and a scale that is not zero in any dimension.
StdRegular ==
    /\ PopulatedCells # {}
    /\ \A q \in PopulatedCells : \A k \in DOMAIN cmnIn[q] : IsFinite(cmnIn[q][k])
    /\ \A k \in DOMAIN v : IsFinite(v[k]) /\ ~IsZero(v[k])

\* C8: after standardizeCellMeans the mean of the populated cells weighted by
\* their counts is 0 in every dimension, whatever the cells without
\* observations hold.
C8_WeightedMeanZero ==
    (pc = "done" /\ StdRegular)
    => \A k \in DOMAIN v : WeightedMean(k) = Zero

\* A call on cells of different counts and means, with a cell without
\* observations that holds a finite vector: the scale is irrational.
C8_Witness ==
    /\ pc = "done" /\ StdRegular
    /\ \E q \in DOMAIN cmc : cmc[q] = 0 /\ IsFinite(cmnIn[q][0]) /\ ~IsZero(cmnIn[q][0])
    /\ \E p, q \in PopulatedCells : cmc[p] # cmc[q] /\ cmnIn[p] # cmnIn[q]
    /\ v[0].r # 1

====
